---- MODULE Spec2Model ----
(***************************************************************************)
(* Model of src/server.py: the ValheimServer lifecycle coordinator.        *)
(*                                                                         *)
(* The server object holds status, config, process and one asyncio.Lock.  *)
(* Each HTTP request is a coroutine; a step of the model is the code a     *)
(* coroutine runs between two suspension points (await), which asyncio     *)
(* executes atomically on its single thread.  The external game-server     *)
(* processes, the clock and the filesystem are the environment.            *)
(***************************************************************************)
EXTENDS Integers, Sequences, FiniteSets, TLC

(***************************************************************************)
(* Bounds of the model.                                                    *)
(***************************************************************************)
\* Number of HTTP requests the run issues (each request is one coroutine).
NumReq == 3
\* Seconds one iteration of the readiness loop (probe + sleep) may take: the
\* clock advances by SlowPoll, or by the whole startup timeout at once.
SlowPoll == 60

(***************************************************************************)
(* Program constants.                                                      *)
(***************************************************************************)
STARTUP_TIMEOUT_SECS == 120
\* asyncio.sleep(1) in the readiness loop
POLL_INTERVAL_SECS == 1
\* ServerConfig defaults
DEFAULT_PORT == 27000
DEFAULT_PUBLIC == 1
\* a port a request body overrides the default with (one of VALHEIM_TCP_PORTS)
ALT_PORT == 2457

Reqs == 1..NumReq
Pids == 1..NumReq

STOPPED == "STOPPED"
RUNNING == "RUNNING"
ServerStatus == {STOPPED, RUNNING}

Ops == {"start", "stop", "backup", "update"}

(***************************************************************************)
(* ServerConfig: a dataclass of five fields.  Optional values are modelled *)
(* as sequences of length at most one: << >> is None.                      *)
(***************************************************************************)
Fields == {"name", "password", "port", "world", "public"}
IntFields == {"port", "public"}

DefaultConfig ==
    [name |-> "Valheim Server", password |-> "secret", port |-> DEFAULT_PORT,
     world |-> "world", public |-> DEFAULT_PUBLIC]

None == << >>
Some(x) == << x >>
Get(o) == o[1]

\* str() of a non-negative int: its decimal digits.
Digit(d) ==
    CASE d = 0 -> "0" [] d = 1 -> "1" [] d = 2 -> "2" [] d = 3 -> "3"
      [] d = 4 -> "4" [] d = 5 -> "5" [] d = 6 -> "6" [] d = 7 -> "7"
      [] d = 8 -> "8" [] d = 9 -> "9"

RECURSIVE IntStr(_)
IntStr(n) == IF n < 10 THEN Digit(n) ELSE IntStr(n \div 10) \o Digit(n % 10)

\* str(getattr(config, field.name))
FieldStr(cfg, f) == IF f \in IntFields THEN IntStr(cfg[f]) ELSE cfg[f]

\* The environment variables server_<field> before any projection.
Unset == "<unset>"
NoEnviron == [f \in Fields |-> Unset]

(***************************************************************************)
(* Request bodies of POST /start.  A body is the set of keys it carries    *)
(* and their values; valid = FALSE is a body that is not JSON (or empty),  *)
(* for which request.json() raises JSONDecodeError.                        *)
(***************************************************************************)
AltConfig ==
    [name |-> "Other Server", password |-> "hunter2", port |-> ALT_PORT,
     world |-> "midgard", public |-> 0]

Bodies ==
    { [valid |-> TRUE,  keys |-> {},                vals |-> AltConfig],
      [valid |-> FALSE, keys |-> {"port"},          vals |-> AltConfig],
      [valid |-> TRUE,  keys |-> {"port"},          vals |-> AltConfig],
      [valid |-> TRUE,  keys |-> {"port", "world"}, vals |-> AltConfig] }

EmptyBody == [valid |-> TRUE, keys |-> {}, vals |-> AltConfig]

\* start(): lines 81-84
RequestJson(b) == IF b.valid THEN b.keys ELSE {}

\* start(): lines 86-88, the override loop over dataclasses.fields
ApplyOverrides(cfg, b) ==
    [f \in Fields |-> IF f \in RequestJson(b) THEN b.vals[f] ELSE cfg[f]]

\* ServerConfig.load: the stored config if the file exists, else the defaults
LoadConfig(file) == IF file # None THEN Get(file) ELSE DefaultConfig

VARIABLES
    status,        \* self.status
    config,        \* self.config (Optional)
    process,       \* self.process: a pid, 0 is None
    locked,        \* self.lock._locked
    waiters,       \* self.lock._waiters, FIFO of requests
    woken,         \* the head waiter's future has been given its result
    configFile,    \* contents of config.json (Optional)
    environ,       \* os.environ, the server_* variables
    procState,     \* external processes: "none", "starting", "listening", "exited"
    procPort,      \* the server_port a process was launched with
    signalled,     \* processes that were sent SIGTERM
    nextPid,       \* next process to be created
    pc,            \* position of each request's coroutine
    op,            \* the handler a request runs
    body,          \* the request body
    server_config, \* start(): local server_config (Optional)
    was_running,   \* backup()/update(): local was_running
    prior,         \* self.config when the request entered the gate
    launched,      \* the pid this request's start_server created, 0 if none
    elapsed,       \* seconds since start_server computed timeout_time
    ret,           \* where stop_server returns to
    prepared,      \* backup(): response headers were sent
    err,           \* the exception that left the handler
    raisedAt,      \* the position at which that exception was raised
    resp,          \* HTTP status the request was answered with, 0 if none yet
    files,         \* paths under worlds_dir, relative to it
    qpc,           \* position of the GET /worlds coroutine
    qseen,         \* get_worlds(): the paths the glob yielded
    qresult        \* the list GET /worlds answered with

selfVars == <<status, config, process>>
lockVars == <<locked, waiters, woken>>
fsVars   == <<configFile, environ>>
procVars == <<procState, procPort, signalled, nextPid>>
reqVars  == <<pc, op, body, server_config, was_running, prior, launched,
              elapsed, ret, prepared, err, raisedAt, resp>>
queryVars == <<files, qpc, qseen, qresult>>
vars == <<status, config, process, locked, waiters, woken, configFile, environ,
          procState, procPort, signalled, nextPid, pc, op, body, server_config,
          was_running, prior, launched, elapsed, ret, prepared, err, raisedAt,
          resp, files, qpc, qseen, qresult>>

\* ValheimServer.__post_init__ and the state of a fresh deployment
ServerInit ==
    /\ status = STOPPED
    /\ config = None
    /\ process = 0
    /\ locked = FALSE
    /\ waiters = << >>
    /\ woken = FALSE
    /\ configFile = None
    /\ environ = NoEnviron
    /\ procState = [p \in Pids |-> "none"]
    /\ procPort = [p \in Pids |-> Unset]
    /\ signalled = {}
    /\ nextPid = 1
    /\ pc = [r \in Reqs |-> "idle"]
    /\ op = [r \in Reqs |-> "start"]
    /\ body = [r \in Reqs |-> EmptyBody]
    /\ server_config = [r \in Reqs |-> None]
    /\ was_running = [r \in Reqs |-> FALSE]
    /\ prior = [r \in Reqs |-> None]
    /\ launched = [r \in Reqs |-> 0]
    /\ elapsed = [r \in Reqs |-> 0]
    /\ ret = [r \in Reqs |-> "none"]
    /\ prepared = [r \in Reqs |-> FALSE]
    /\ err = [r \in Reqs |-> "none"]
    /\ raisedAt = [r \in Reqs |-> "none"]
    /\ resp = [r \in Reqs |-> 0]
    /\ qpc = "idle"
    /\ qseen = {}
    /\ qresult = << >>

(***************************************************************************)
(* The worlds directory.  A path is the sequence of its characters' code   *)
(* points ("a.db" is <<97, 46, 100, 98>>), so that suffix, stem and the    *)
(* order of sorted() are computed the way pathlib and str compare do.      *)
(***************************************************************************)
\* a.fwl, a.db, b.fwl, c.db, c.txt
ExampleFiles ==
    { <<97, 46, 102, 119, 108>>, <<97, 46, 100, 98>>, <<98, 46, 102, 119, 108>>,
      <<99, 46, 100, 98>>, <<99, 46, 116, 120, 116>> }

\* The example files, and: ".db" (a hidden file without suffix), "s/a.db"
\* (a world file in a subdirectory), "ab.db", "b.a.db" (a dot in the stem)
WorldPaths ==
    ExampleFiles \cup
    { <<46, 100, 98>>, <<115, 47, 97, 46, 100, 98>>, <<97, 98, 46, 100, 98>>,
      <<98, 46, 97, 46, 100, 98>> }

Init ==
    /\ ServerInit
    /\ files = ExampleFiles

\* The same deployment over any content of the worlds directory.
WorldsInit ==
    /\ ServerInit
    /\ files \in SUBSET WorldPaths

(***************************************************************************)
(* Helpers on the per-request locals.                                      *)
(***************************************************************************)
Min(a, b) == IF a < b THEN a ELSE b

\* The requests whose coroutine is inside "async with self.lock".
InGate(r) == pc[r] \notin {"idle", "waiting", "done"}

\* An exception leaves the handler body: the coroutine unwinds to __aexit__.
Raise(r, e) ==
    /\ pc' = [pc EXCEPT ![r] = "raise"]
    /\ err' = [err EXCEPT ![r] = e]
    /\ raisedAt' = [raisedAt EXCEPT ![r] = pc[r]]

(***************************************************************************)
(* asyncio.Lock, as used by "async with self.lock".                        *)
(***************************************************************************)
\* Lock.acquire fast path: not locked and no (uncancelled) waiter queued.
CanAcquire_IgnoresLocked == waiters = << >>

CanAcquire_Barging == ~locked

CanAcquire == ~locked /\ waiters = << >>

\* Lock.release: unlock and give the first waiter's future its result.
Release_Leak == UNCHANGED lockVars

Release ==
    /\ locked' = FALSE
    /\ waiters' = waiters
    /\ woken' = (waiters # << >>)

\* A request arrives and its handler runs up to "async with self.lock":
\* it either takes the lock at once or queues behind the holder.
Arrive(r) ==
    /\ pc[r] = "idle"
    /\ \A q \in Reqs : q < r => pc[q] # "idle"
    /\ \E o \in Ops : op' = [op EXCEPT ![r] = o]
    /\ IF CanAcquire
          THEN /\ locked' = TRUE
               /\ pc' = [pc EXCEPT ![r] = "enter"]
               /\ UNCHANGED <<waiters, woken>>
          ELSE /\ waiters' = Append(waiters, r)
               /\ pc' = [pc EXCEPT ![r] = "waiting"]
               /\ UNCHANGED <<locked, woken>>
    /\ UNCHANGED <<selfVars, fsVars, procVars, body, server_config, was_running,
                   prior, launched, elapsed, ret, prepared, err, raisedAt,
                   resp>>
    /\ UNCHANGED queryVars

\* The woken head waiter resumes inside Lock.acquire and takes the lock.
Granted(r) ==
    /\ pc[r] = "waiting"
    /\ waiters # << >>
    /\ Head(waiters) = r
    /\ woken
    /\ waiters' = Tail(waiters)
    /\ locked' = TRUE
    /\ woken' = FALSE
    /\ pc' = [pc EXCEPT ![r] = "enter"]
    /\ UNCHANGED <<selfVars, fsVars, procVars, op, body, server_config,
                   was_running, prior, launched, elapsed, ret, prepared, err, raisedAt,
                   resp>>
    /\ UNCHANGED queryVars

(***************************************************************************)
(* POST /start                                                             *)
(***************************************************************************)
\* start(): line 78
AlreadyRunning_Never == FALSE

AlreadyRunning == status = RUNNING

\* start(): the status check, then await request.json() reads the body
Start(r) ==
    /\ pc[r] = "enter"
    /\ op[r] = "start"
    /\ IF AlreadyRunning
          THEN /\ Raise(r, "HTTPConflict")
               /\ body' = body
          ELSE /\ \E b \in Bodies : body' = [body EXCEPT ![r] = b]
               /\ pc' = [pc EXCEPT ![r] = "load"]
               /\ UNCHANGED <<err, raisedAt>>
    /\ UNCHANGED <<selfVars, lockVars, fsVars, procVars, op, server_config,
                   was_running, prior, launched, elapsed, ret, prepared, resp>>
    /\ UNCHANGED queryVars

\* start(): await ServerConfig.load(), then the override loop
Load(r) ==
    /\ pc[r] = "load"
    /\ \/ /\ server_config' = [server_config EXCEPT
                 ![r] = Some(ApplyOverrides(LoadConfig(configFile), body[r]))]
          /\ pc' = [pc EXCEPT ![r] = "configure"]
          /\ UNCHANGED <<err, raisedAt>>
       \/ /\ Raise(r, "OSError")
          /\ server_config' = server_config
    /\ UNCHANGED <<selfVars, lockVars, fsVars, procVars, op, body,
                   was_running, prior, launched, elapsed, ret, prepared, resp>>
    /\ UNCHANGED queryVars

\* configure_server: os.environ after the projection loop
Project_OnlyPort(cfg) ==
    [f \in Fields |-> IF f = "port" THEN FieldStr(cfg, f) ELSE environ[f]]

Project(cfg) == [f \in Fields |-> FieldStr(cfg, f)]

\* configure_server: await config.dump(), project into os.environ, record
ConfigureServer(r) ==
    /\ pc[r] = "configure"
    /\ \/ /\ configFile' = Some(Get(server_config[r]))
          /\ environ' = Project(Get(server_config[r]))
          /\ config' = server_config[r]
          /\ pc' = [pc EXCEPT ![r] = "spawn"]
          /\ UNCHANGED <<err, raisedAt>>
       \/ /\ Raise(r, "OSError")
          /\ UNCHANGED <<configFile, environ, config>>
    /\ UNCHANGED <<status, process, lockVars, procVars, op, body, server_config,
                   was_running, prior, launched, elapsed, ret, prepared, resp>>
    /\ UNCHANGED queryVars

(***************************************************************************)
(* start_server and the readiness probe                                    *)
(***************************************************************************)
\* is_udp_port_open: ":<port> " occurs in the output of "ss -lnu", which
\* lists the bound UDP ports; a launched process binds the server_port of
\* the environment it was created with.
IsUdpPortOpen(port) ==
    \E p \in Pids : procState[p] = "listening" /\ procPort[p] = IntStr(port)

\* start_server: await asyncio.create_subprocess_shell(...), self.process
StartServerSpawn(r) ==
    /\ pc[r] = "spawn"
    /\ \/ /\ nextPid \in Pids
          /\ procState' = [procState EXCEPT ![nextPid] = "starting"]
          /\ procPort' = [procPort EXCEPT ![nextPid] = environ["port"]]
          /\ nextPid' = nextPid + 1
          /\ process' = nextPid
          /\ launched' = [launched EXCEPT ![r] = nextPid]
          /\ elapsed' = [elapsed EXCEPT ![r] = 0]
          /\ pc' = [pc EXCEPT ![r] = "poll"]
          /\ UNCHANGED <<err, raisedAt>>
       \/ /\ Raise(r, "OSError")
          /\ UNCHANGED <<procState, procPort, nextPid, process, launched, elapsed>>
    /\ UNCHANGED <<status, config, lockVars, fsVars, signalled, op, body,
                   server_config, was_running, prior, ret, prepared, resp>>
    /\ UNCHANGED queryVars

\* start_server: the loop condition time.time() < timeout_time
BeforeDeadline_Always(r) == TRUE

BeforeDeadline(r) == elapsed[r] < STARTUP_TIMEOUT_SECS

\* start_server: one evaluation of the while loop.  Before the deadline it
\* reads self.config.port (AttributeError when self.config is None) and
\* probes; a successful probe leaves the loop and sets status RUNNING.  At
\* the deadline the else branch calls stop_server.
Poll(r) ==
    /\ pc[r] = "poll"
    /\ IF BeforeDeadline(r)
          THEN IF config = None
                  THEN /\ Raise(r, "AttributeError")
                       /\ UNCHANGED <<status, ret>>
                  ELSE IF IsUdpPortOpen(Get(config).port)
                          THEN /\ status' = RUNNING
                               /\ pc' = [pc EXCEPT ![r] = "return"]
                               /\ UNCHANGED <<err, raisedAt, ret>>
                          ELSE /\ pc' = [pc EXCEPT ![r] = "sleep"]
                               /\ UNCHANGED <<status, err, raisedAt, ret>>
          ELSE /\ pc' = [pc EXCEPT ![r] = "terminate"]
               /\ ret' = [ret EXCEPT ![r] = "timeout"]
               /\ UNCHANGED <<status, err, raisedAt>>
    /\ UNCHANGED <<config, process, lockVars, fsVars, procVars, op, body,
                   server_config, was_running, prior, launched, elapsed,
                   prepared, resp>>
    /\ UNCHANGED queryVars

\* start_server: await asyncio.sleep(1); the clock advances by at least the
\* interval.
Sleep(r) ==
    /\ pc[r] = "sleep"
    /\ \E d \in {SlowPoll, STARTUP_TIMEOUT_SECS} :
          /\ d >= POLL_INTERVAL_SECS
          /\ elapsed' = [elapsed EXCEPT
                 ![r] = Min(elapsed[r] + d, STARTUP_TIMEOUT_SECS)]
    /\ pc' = [pc EXCEPT ![r] = "poll"]
    /\ UNCHANGED <<selfVars, lockVars, fsVars, procVars, op, body, server_config,
                   was_running, prior, launched, ret, prepared, err, raisedAt,
                   resp>>
    /\ UNCHANGED queryVars

(***************************************************************************)
(* stop_server                                                             *)
(***************************************************************************)
\* stop_server: self.process.terminate().  Process.terminate raises
\* ProcessLookupError for a process that has already exited; on None it is
\* an AttributeError.
StopServerTerminate(r) ==
    /\ pc[r] = "terminate"
    /\ IF process = 0
          THEN /\ Raise(r, "AttributeError")
               /\ signalled' = signalled
          ELSE IF procState[process] = "exited"
                  THEN /\ Raise(r, "ProcessLookupError")
                       /\ signalled' = signalled
                  ELSE /\ signalled' = signalled \cup {process}
                       /\ pc' = [pc EXCEPT ![r] = "wait"]
                       /\ UNCHANGED <<err, raisedAt>>
    /\ UNCHANGED <<selfVars, lockVars, fsVars, procState, procPort, nextPid,
                   op, body, server_config, was_running, prior, launched,
                   elapsed, ret, prepared, resp>>
    /\ UNCHANGED queryVars

\* stop_server: what it assigns once process.wait() has returned
StopServerClear ==
    /\ status' = STOPPED
    /\ config' = None
    /\ process' = process

\* Where the caller of stop_server continues.
AfterStop(r) ==
    CASE ret[r] = "stop"   -> "return"
      [] ret[r] = "backup" -> "backup_prepare"
      [] ret[r] = "update" -> "update_mutate"
      [] OTHER             -> "raise"

\* stop_server: await self.process.wait() has returned
ProcessWaitDone_NoWait(p) == TRUE

ProcessWaitDone(p) == procState[p] = "exited"

\* stop_server: await self.process.wait() returns when the process has
\* exited; then status and config are reset.  Called from the startup
\* timeout, the caller then raises RuntimeError.
StopServerWait(r) ==
    /\ pc[r] = "wait"
    /\ process # 0
    /\ ProcessWaitDone(process)
    /\ StopServerClear
    /\ pc' = [pc EXCEPT ![r] = AfterStop(r)]
    /\ err' = [err EXCEPT ![r] = IF ret[r] = "timeout" THEN "RuntimeError" ELSE @]
    /\ raisedAt' = [raisedAt EXCEPT ![r] = IF ret[r] = "timeout" THEN pc[r] ELSE @]
    /\ UNCHANGED <<lockVars, fsVars, procVars, op, body, server_config,
                   was_running, prior, launched, elapsed, ret, prepared, resp>>
    /\ UNCHANGED queryVars

(***************************************************************************)
(* POST /stop                                                              *)
(***************************************************************************)
\* stop(): line 134
AlreadyStopped_Never == FALSE

AlreadyStopped == status = STOPPED

Stop(r) ==
    /\ pc[r] = "enter"
    /\ op[r] = "stop"
    /\ IF AlreadyStopped
          THEN /\ Raise(r, "HTTPConflict")
               /\ ret' = ret
          ELSE /\ pc' = [pc EXCEPT ![r] = "terminate"]
               /\ ret' = [ret EXCEPT ![r] = "stop"]
               /\ UNCHANGED <<err, raisedAt>>
    /\ UNCHANGED <<selfVars, lockVars, fsVars, procVars, op, body, server_config,
                   was_running, prior, launched, elapsed, prepared, resp>>
    /\ UNCHANGED queryVars

(***************************************************************************)
(* GET /backup                                                             *)
(***************************************************************************)
\* backup()/update(): was_running = self.status == ServerStatus.RUNNING
WasRunning == status = RUNNING

Backup(r) ==
    /\ pc[r] = "enter"
    /\ op[r] = "backup"
    /\ was_running' = [was_running EXCEPT ![r] = WasRunning]
    /\ prior' = [prior EXCEPT ![r] = config]
    /\ IF WasRunning
          THEN /\ pc' = [pc EXCEPT ![r] = "terminate"]
               /\ ret' = [ret EXCEPT ![r] = "backup"]
          ELSE /\ pc' = [pc EXCEPT ![r] = "backup_prepare"]
               /\ ret' = ret
    /\ UNCHANGED <<selfVars, lockVars, fsVars, procVars, op, body, server_config,
                   launched, elapsed, prepared, err, raisedAt,
                   resp>>
    /\ UNCHANGED queryVars

\* backup(): await response.prepare(request) sends status and headers
BackupPrepare(r) ==
    /\ pc[r] = "backup_prepare"
    /\ prepared' = [prepared EXCEPT ![r] = TRUE]
    /\ pc' = [pc EXCEPT ![r] = "backup_glob"]
    /\ UNCHANGED <<selfVars, lockVars, fsVars, procVars, op, body, server_config,
                   was_running, prior, launched, elapsed, ret, err, raisedAt,
                   resp>>
    /\ UNCHANGED queryVars

\* backup(): the async for over worlds_path.glob("**/*")
BackupGlob(r) ==
    /\ pc[r] = "backup_glob"
    /\ \/ /\ pc' = [pc EXCEPT ![r] = "backup_stream"]
          /\ UNCHANGED <<err, raisedAt>>
       \/ Raise(r, "OSError")
    /\ UNCHANGED <<selfVars, lockVars, fsVars, procVars, op, body, server_config,
                   was_running, prior, launched, elapsed, ret, prepared, resp>>
    /\ UNCHANGED queryVars

\* backup()/update(): "if was_running: await self.start_server()", else the
\* handler returns
RestartOrReturn(r) == IF was_running[r] THEN "spawn" ELSE "return"

\* backup(): the async for over zip_stream.stream() reads every file and
\* writes the chunks; then the restart
BackupStream(r) ==
    /\ pc[r] = "backup_stream"
    /\ \/ /\ pc' = [pc EXCEPT ![r] = RestartOrReturn(r)]
          /\ UNCHANGED <<err, raisedAt>>
       \/ Raise(r, "OSError")
    /\ UNCHANGED <<selfVars, lockVars, fsVars, procVars, op, body, server_config,
                   was_running, prior, launched, elapsed, ret, prepared, resp>>
    /\ UNCHANGED queryVars

(***************************************************************************)
(* POST /update                                                            *)
(***************************************************************************)
Update(r) ==
    /\ pc[r] = "enter"
    /\ op[r] = "update"
    /\ was_running' = [was_running EXCEPT ![r] = WasRunning]
    /\ prior' = [prior EXCEPT ![r] = config]
    /\ IF WasRunning
          THEN /\ pc' = [pc EXCEPT ![r] = "terminate"]
               /\ ret' = [ret EXCEPT ![r] = "update"]
          ELSE /\ pc' = [pc EXCEPT ![r] = "update_mutate"]
               /\ ret' = ret
    /\ UNCHANGED <<selfVars, lockVars, fsVars, procVars, op, body, server_config,
                   launched, elapsed, prepared, err, raisedAt,
                   resp>>
    /\ UNCHANGED queryVars

\* update(): the place of the "# Update" comment, between stop and restart
UpdateMutate(r) ==
    /\ pc[r] = "update_mutate"
    /\ pc' = [pc EXCEPT ![r] = RestartOrReturn(r)]
    /\ UNCHANGED <<selfVars, lockVars, fsVars, procVars, op, body, server_config,
                   was_running, prior, launched, elapsed, ret, prepared, err, raisedAt,
                   resp>>
    /\ UNCHANGED queryVars

(***************************************************************************)
(* Leaving the handler: __aexit__ releases the lock, json_responses        *)
(* answers.                                                                *)
(***************************************************************************)
\* json_responses: the status of the answer.  An HTTPException keeps its
\* status code, any other exception becomes 500; update() returns None, on
\* which response.content_type raises inside the middleware.
MiddlewareStatus(r) ==
    IF pc[r] = "raise"
       THEN IF err[r] = "HTTPConflict" THEN 409 ELSE 500
       ELSE IF op[r] = "update" THEN 500 ELSE 200

\* The coroutine ends; its locals are dropped.
Exit(r) ==
    /\ pc[r] \in {"return", "raise"}
    /\ Release
    /\ resp' = [resp EXCEPT ![r] = MiddlewareStatus(r)]
    /\ pc' = [pc EXCEPT ![r] = "done"]
    /\ body' = [body EXCEPT ![r] = EmptyBody]
    /\ server_config' = [server_config EXCEPT ![r] = None]
    /\ was_running' = [was_running EXCEPT ![r] = FALSE]
    /\ prior' = [prior EXCEPT ![r] = None]
    /\ launched' = [launched EXCEPT ![r] = 0]
    /\ elapsed' = [elapsed EXCEPT ![r] = 0]
    /\ ret' = [ret EXCEPT ![r] = "none"]
    /\ UNCHANGED <<selfVars, fsVars, procVars, op, prepared, err, raisedAt>>
    /\ UNCHANGED queryVars

(***************************************************************************)
(* The external processes.                                                 *)
(***************************************************************************)
\* A launched game server binds its UDP port.
ProcListen(p) ==
    /\ procState[p] = "starting"
    /\ procState' = [procState EXCEPT ![p] = "listening"]
    /\ UNCHANGED <<selfVars, lockVars, fsVars, procPort, signalled, nextPid, reqVars>>
    /\ UNCHANGED queryVars

\* A process exits: after SIGTERM, or on its own.
ProcExit_ResetsStatus(p) ==
    /\ procState[p] \in {"starting", "listening"}
    /\ procState' = [procState EXCEPT ![p] = "exited"]
    /\ status' = STOPPED
    /\ UNCHANGED <<config, process, lockVars, fsVars, procPort, signalled,
                   nextPid, reqVars>>
    /\ UNCHANGED queryVars

ProcExit(p) ==
    /\ procState[p] \in {"starting", "listening"}
    /\ procState' = [procState EXCEPT ![p] = "exited"]
    /\ UNCHANGED <<selfVars, lockVars, fsVars, procPort, signalled, nextPid, reqVars>>
    /\ UNCHANGED queryVars

(***************************************************************************)
(* GET /worlds                                                             *)
(***************************************************************************)
\* str.rfind: the last index (from 1) at which ch occurs in s, 0 if none
RECURSIVE RFind(_, _)
RFind(s, ch) ==
    IF s = << >> THEN 0
    ELSE IF s[Len(s)] = ch THEN Len(s)
    ELSE RFind(SubSeq(s, 1, Len(s) - 1), ch)

\* PurePath.name: what follows the last "/"
PathName(path) == SubSeq(path, RFind(path, 47) + 1, Len(path))

\* PurePath.suffix and stem split the name at its last ".", unless that dot
\* is the first or the last character of the name
HasSuffix(name) == 1 < RFind(name, 46) /\ RFind(name, 46) < Len(name)

Suffix(name) ==
    IF HasSuffix(name) THEN SubSeq(name, RFind(name, 46), Len(name)) ELSE << >>

Stem(name) ==
    IF HasSuffix(name) THEN SubSeq(name, 1, RFind(name, 46) - 1) ELSE name

\* get_worlds: world_file_extensions = {".fwl", ".db"}
WorldFileExtensions_OnlyDb == { <<46, 100, 98>> }

WorldFileExtensions == { <<46, 102, 119, 108>>, <<46, 100, 98>> }

\* str < str: lexicographic by code point, a proper prefix is smaller
RECURSIVE StrLess(_, _)
StrLess(s, t) ==
    IF t = << >> THEN FALSE
    ELSE IF s = << >> THEN TRUE
    ELSE IF s[1] # t[1] THEN s[1] < t[1]
    ELSE StrLess(Tail(s), Tail(t))

\* sorted(): the elements of a set of strings in ascending order
RECURSIVE Sorted(_)
Sorted(S) ==
    IF S = {} THEN << >>
    ELSE LET least == CHOOSE x \in S : \A y \in S : y = x \/ StrLess(x, y)
         IN  << least >> \o Sorted(S \ {least})

\* get_worlds: the loop over the glob and the final sorted(world_names)
GetWorlds(paths) ==
    Sorted({ Stem(PathName(path)) :
               path \in { x \in paths : Suffix(PathName(x)) \in WorldFileExtensions } })

\* list_worlds calls get_worlds, whose "async for" enumerates the directory
\* and nothing else: the handler can run whenever the request has arrived
CanListWorlds == qpc = "idle"

ListWorlds_TakesLock ==
    /\ CanListWorlds
    /\ CanAcquire
    /\ locked' = TRUE
    /\ qseen' = files
    /\ qpc' = "glob"
    /\ UNCHANGED <<selfVars, waiters, woken, fsVars, procVars, reqVars, files,
                   qresult>>

ListWorlds ==
    /\ CanListWorlds
    /\ qseen' = files
    /\ qpc' = "glob"
    /\ UNCHANGED <<selfVars, lockVars, fsVars, procVars, reqVars, files, qresult>>

\* get_worlds returns the sorted names and list_worlds answers with them
ListWorldsReturn ==
    /\ qpc = "glob"
    /\ qresult' = GetWorlds(qseen)
    /\ qpc' = "done"
    /\ UNCHANGED <<selfVars, lockVars, fsVars, procVars, reqVars, files, qseen>>

Next ==
    \/ \E r \in Reqs : Arrive(r)
    \/ \E r \in Reqs : Granted(r)
    \/ \E r \in Reqs : Start(r)
    \/ \E r \in Reqs : Load(r)
    \/ \E r \in Reqs : ConfigureServer(r)
    \/ \E r \in Reqs : StartServerSpawn(r)
    \/ \E r \in Reqs : Poll(r)
    \/ \E r \in Reqs : Sleep(r)
    \/ \E r \in Reqs : StopServerTerminate(r)
    \/ \E r \in Reqs : StopServerWait(r)
    \/ \E r \in Reqs : Stop(r)
    \/ \E r \in Reqs : Backup(r)
    \/ \E r \in Reqs : BackupPrepare(r)
    \/ \E r \in Reqs : BackupGlob(r)
    \/ \E r \in Reqs : BackupStream(r)
    \/ \E r \in Reqs : Update(r)
    \/ \E r \in Reqs : UpdateMutate(r)
    \/ \E r \in Reqs : Exit(r)
    \/ \E p \in Pids : ProcListen(p)
    \/ \E p \in Pids : ProcExit(p)
    \/ ListWorlds
    \/ ListWorldsReturn

Spec == Init /\ [][Next]_vars

\* The event loop runs a coroutine that is ready: every step of a handler
\* inside the gate is taken once it can be.
HandlerStep ==
    \E r \in Reqs :
        \/ Start(r) \/ Load(r) \/ ConfigureServer(r)
        \/ StartServerSpawn(r) \/ Poll(r) \/ Sleep(r)
        \/ StopServerTerminate(r) \/ StopServerWait(r)
        \/ Stop(r)
        \/ Backup(r) \/ BackupPrepare(r) \/ BackupGlob(r) \/ BackupStream(r)
        \/ Update(r) \/ UpdateMutate(r)
        \/ Exit(r)

\* A process that was sent SIGTERM exits.
SignalledExit == \E p \in Pids : p \in signalled /\ ProcExit(p)

\* The supervisor with a running event loop, an advancing clock and
\* processes that obey SIGTERM.
FairSpec == Spec /\ WF_vars(HandlerStep) /\ WF_vars(SignalledExit)

\* The world listing alone, over every content of the worlds directory.
WorldsNext ==
    \/ ListWorlds
    \/ ListWorldsReturn

WorldsSpec == WorldsInit /\ [][WorldsNext]_vars

(***************************************************************************)
(* Properties.                                                             *)
(***************************************************************************)
Alive(p) == procState[p] \in {"starting", "listening"}

\* A handler is about to leave the gate: normally, or with an exception.
Leaving(r) == pc[r] \in {"return", "raise"}

\* Failures that come from the environment, not from the handler's logic:
\* filesystem or spawn errors, the startup timeout, a process already gone.
EnvFailures == {"OSError", "RuntimeError", "ProcessLookupError"}

\* C1: at most one lifecycle request is between acquiring and releasing the
\* lock at any moment, and whoever is inside holds the lock.
C1_MutualExclusion ==
    /\ \A r1, r2 \in Reqs : InGate(r1) /\ InGate(r2) => r1 = r2
    /\ \A r \in Reqs : InGate(r) => locked

\* C1 witness: one request is inside the gate while another waits for it.
C1_Witness ==
    \E r1, r2 \in Reqs : InGate(r1) /\ pc[r1] = "poll" /\ pc[r2] = "waiting"

\* C2 (as claimed): a backup whose archive was produced and which met no
\* environment failure leaves the server as it found it: RUNNING with the
\* configuration that was active before, or STOPPED with no process launched.
C2_BackupRestoresRunState ==
    \A r \in Reqs :
        (op[r] = "backup" /\ Leaving(r) /\ err[r] \notin EnvFailures) =>
            IF was_running[r]
               THEN status = RUNNING /\ config = prior[r]
               ELSE status = STOPPED /\ launched[r] = 0

\* C3: a start request that finds status RUNNING raises HTTPConflict, is
\* answered 409, and neither step of it changes status, config, handle or the
\* set of processes.
C3_StartConflict ==
    [][\A r \in Reqs :
          /\ (op[r] = "start" /\ pc[r] = "enter" /\ status = RUNNING
              /\ pc'[r] # pc[r])
             => /\ pc'[r] = "raise" /\ err'[r] = "HTTPConflict"
                /\ UNCHANGED <<selfVars, procVars, fsVars>>
          /\ (op[r] = "start" /\ pc[r] = "raise" /\ err[r] = "HTTPConflict"
              /\ pc'[r] # pc[r])
             => /\ pc'[r] = "done" /\ resp'[r] = 409 /\ launched[r] = 0
                /\ UNCHANGED <<selfVars, procVars, fsVars>>]_vars

\* C3 witness: a start request was refused while the server is RUNNING.
C3_Witness ==
    \E r \in Reqs :
        /\ op[r] = "start" /\ pc[r] = "done" /\ resp[r] = 409
        /\ status = RUNNING /\ process # 0 /\ Alive(process)

\* C4: a stop request that finds status STOPPED raises HTTPConflict, is
\* answered 409, sends no signal and leaves status, handle and config alone.
C4_StopConflict ==
    [][\A r \in Reqs :
          /\ (op[r] = "stop" /\ pc[r] = "enter" /\ status = STOPPED
              /\ pc'[r] # pc[r])
             => /\ pc'[r] = "raise" /\ err'[r] = "HTTPConflict"
                /\ UNCHANGED <<selfVars, procVars>>
          /\ (op[r] = "stop" /\ pc[r] = "raise" /\ err[r] = "HTTPConflict"
              /\ pc'[r] # pc[r])
             => /\ pc'[r] = "done" /\ resp'[r] = 409
                /\ UNCHANGED <<selfVars, procVars>>]_vars

\* C4 witness: a stop request was refused with 409 on a STOPPED server.
C4_Witness ==
    \E r \in Reqs :
        op[r] = "stop" /\ pc[r] = "done" /\ resp[r] = 409 /\ status = STOPPED

\* C5: when a start request returns, status is RUNNING and self.config is
\* the config that start built and projected: it carries every override of
\* the body, the config file holds it, every server_* variable is its str(),
\* and the launched process was created with its port.
C5_StartRecordsProjectedConfig ==
    \A r \in Reqs :
        (op[r] = "start" /\ pc[r] = "return") =>
            /\ status = RUNNING
            /\ config # None
            /\ config = server_config[r]
            /\ configFile = config
            /\ \A f \in Fields : environ[f] = FieldStr(Get(config), f)
            /\ \A f \in RequestJson(body[r]) : Get(config)[f] = body[r].vals[f]
            /\ launched[r] # 0
            /\ procPort[launched[r]] = IntStr(Get(config).port)

\* C5 witness: a start with overrides returned while the stored config file
\* differed from the defaults in a field the body does not override.
C5_Witness ==
    \E r \in Reqs :
        /\ op[r] = "start" /\ pc[r] = "return"
        /\ RequestJson(body[r]) = {"port"}
        /\ Get(config).world # DefaultConfig.world

\* C6 (as claimed): when a stop request returns, status is STOPPED, the
\* handle is cleared and a start would pass the status check.
C6_StopClearsHandle ==
    \A r \in Reqs :
        (op[r] = "stop" /\ pc[r] = "return") =>
            status = STOPPED /\ process = 0 /\ ~AlreadyRunning

\* C7: a start whose launched process never became ready fails with status
\* STOPPED and the launched process signalled and gone; any failure of a
\* start request after the launch leaves no live process behind.
C7_TimeoutStopsProcess ==
    \A r \in Reqs :
        /\ (pc[r] = "raise" /\ err[r] = "RuntimeError") =>
              /\ status = STOPPED
              /\ launched[r] # 0
              /\ launched[r] \in signalled
              /\ ~Alive(launched[r])
        /\ (op[r] = "start" /\ pc[r] = "raise" /\ launched[r] # 0) =>
              status = STOPPED /\ ~Alive(launched[r])

\* C7 witness: a start request is failing with the startup timeout.
C7_Witness ==
    \E r \in Reqs :
        op[r] = "start" /\ pc[r] = "raise" /\ err[r] = "RuntimeError"

\* C8: whenever no lifecycle request is inside the gate the lock is free,
\* and it is available: either nobody waits, or the first waiter has been
\* woken and will take it.
C8_GateReleased ==
    (\A r \in Reqs : ~InGate(r)) =>
        /\ ~locked
        /\ waiters # << >> => (woken /\ pc[Head(waiters)] = "waiting")

\* C8 witness: a request left the gate with an exception that is no
\* Conflict, and a later request is inside the gate.
C8_Witness ==
    \E r, q \in Reqs :
        /\ pc[r] = "done" /\ err[r] \notin {"none", "HTTPConflict"}
        /\ q > r /\ InGate(q)

\* C9 (as claimed): backup enumerates and reads the world files only while
\* no process launched by the supervisor is alive.
C9_BackupReadsWithNoLiveProcess ==
    \A r \in Reqs :
        pc[r] \in {"backup_glob", "backup_stream"} => \A p \in Pids : ~Alive(p)

\* C10 (as claimed): update runs its mutation step with no launched process
\* alive, and unless the environment fails it leaves the server as it found
\* it: RUNNING with the prior configuration, or STOPPED.
C10_UpdateBracket ==
    \A r \in Reqs :
        /\ pc[r] = "update_mutate" => \A p \in Pids : ~Alive(p)
        /\ (op[r] = "update" /\ Leaving(r) /\ err[r] \notin EnvFailures) =>
              IF was_running[r]
                 THEN status = RUNNING /\ config = prior[r]
                 ELSE status = STOPPED

\* json_responses: what the caller is told about a finished request: the
\* status, the key of the JSON envelope, and for a generic exception the
\* exception that the traceback in "error" names.
Outcome(r) ==
    [status    |-> resp[r],
     key       |-> IF err[r] = "none" THEN "result"
                   ELSE IF err[r] = "HTTPConflict" THEN "message" ELSE "error",
     exception |-> err[r]]

\* backup(): the positions of the restart (start_server and its timeout path)
RestartPcs == {"spawn", "poll", "wait"}

\* backup(): the positions that produce the archive content
ContentPcs == {"backup_glob", "backup_stream"}

\* C11 (as claimed): a backup that failed in its restart is reported with an
\* outcome different from that of a backup that failed while enumerating or
\* streaming the archive.
C11_RestartFailureDistinct ==
    \A r, q \in Reqs :
        (/\ op[r] = "backup" /\ pc[r] = "done" /\ raisedAt[r] \in RestartPcs
         /\ op[q] = "backup" /\ pc[q] = "done" /\ raisedAt[q] \in ContentPcs)
        => Outcome(r) # Outcome(q)

\* C12 (as claimed): an update whose steps all completed without an exception
\* is answered with 200.
C12_UpdateAnswers200 ==
    \A r \in Reqs :
        (op[r] = "update" /\ pc[r] = "done" /\ err[r] = "none") => resp[r] = 200

\* C13: requests enter the gate in the order in which they began to wait.
\* Requests arrive in the order of their ids, so whenever a request enters
\* the gate no request that arrived before it is still waiting: neither a
\* later waiter nor a newly arriving request overtakes a waiter.
C13_FifoGate ==
    [][\A r \in Reqs :
          (pc[r] # "enter" /\ pc'[r] = "enter") =>
              \A q \in Reqs : pc[q] = "waiting" => r <= q]_vars

\* C13 witness: two requests wait in the queue, the holder has released the
\* lock and woken the one that waited first.
C13_Witness ==
    \E h, r, q \in Reqs :
        /\ pc[h] = "done" /\ pc[r] = "waiting" /\ pc[q] = "waiting"
        /\ waiters = << r, q >>
        /\ woken /\ ~locked

\* C14: no step of the world listing changes the lock, the supervisor state,
\* the processes or a lifecycle request, and a listing that has arrived can
\* run whoever holds the lock.
C14_ListWorldsOutsideGate ==
    [][/\ qpc' # qpc =>
             UNCHANGED <<selfVars, lockVars, fsVars, procVars, reqVars>>
       /\ qpc = "idle" => CanListWorlds]_vars

\* C14 witness: the listing has been answered while a stop is waiting, inside
\* the gate, for the process to exit.
C14_Witness ==
    /\ qpc = "done"
    /\ locked
    /\ \E r \in Reqs : pc[r] = "wait" /\ op[r] = "stop"

\* C15: the answer of the world listing holds exactly the stems of the paths
\* whose name ends in the suffix .fwl or .db, each once, in strictly
\* ascending order.
C15_WorldsExactSortedStems ==
    qpc = "done" =>
        /\ { qresult[i] : i \in 1..Len(qresult) } =
              { Stem(PathName(x)) :
                  x \in { y \in files :
                            Suffix(PathName(y)) \in
                                { <<46, 102, 119, 108>>, <<46, 100, 98>> } } }
        /\ \A i, j \in 1..Len(qresult) :
              i < j => StrLess(qresult[i], qresult[j])

\* C15 witness: for a.fwl, a.db, b.fwl, c.db, c.txt the answer is a, b, c.
C15_Witness ==
    /\ qpc = "done"
    /\ files = ExampleFiles
    /\ qresult = << <<97>>, <<98>>, <<99>> >>

\* C16 (as claimed, at rest): when no request is inside the gate, the process
\* handle is set if status is RUNNING and is null if status is STOPPED.
C16_HandleMatchesStatus ==
    (\A r \in Reqs : ~InGate(r)) =>
        /\ status = RUNNING => process # 0
        /\ status = STOPPED => process = 0

\* C17: whenever status changes, the step is taken by the one request that
\* is inside the gate, and the lock is held; no other request is inside.
C17_StatusChangesUnderLock ==
    [][status' # status =>
          /\ locked
          /\ \E r \in Reqs :
                /\ InGate(r)
                /\ pc'[r] # pc[r]
                /\ \A q \in Reqs \ {r} : ~InGate(q) /\ pc'[q] = pc[q]]_vars

\* C17 witness: a stop has just set status STOPPED after an earlier start set
\* it RUNNING, while another request waits for the lock.
C17_Witness ==
    \E s, r, q \in Reqs :
        /\ op[s] = "start" /\ pc[s] = "done" /\ resp[s] = 200
        /\ op[r] = "stop" /\ pc[r] = "return" /\ status = STOPPED
        /\ pc[q] = "waiting"

\* C18 (as claimed): when a start or a backup is leaving with a failure, the
\* status is STOPPED, the process handle is null and no process launched by
\* the operation is alive.
C18_FailureRevertsToStopped ==
    \A r \in Reqs :
        (/\ op[r] \in {"start", "backup"}
         /\ pc[r] = "raise"
         /\ err[r] # "HTTPConflict") =>
            /\ status = STOPPED
            /\ process = 0
            /\ launched[r] # 0 => ~Alive(launched[r])

\* C19: a start request that has entered the gate eventually ends and has
\* released it, given a running event loop and processes that obey SIGTERM.
C19_StartEnds ==
    \A r \in Reqs : (op[r] = "start" /\ InGate(r)) ~> (pc[r] = "done")

\* C19 witness: a start has ended through the startup deadline, its launched
\* process terminated, and the gate is free again.
C19_Witness ==
    \E r \in Reqs :
        /\ op[r] = "start" /\ pc[r] = "done" /\ err[r] = "RuntimeError"
        /\ raisedAt[r] = "wait"
        /\ ~locked

\* C20 (as claimed): at most one launched process is alive, and none is alive
\* while no request is inside the gate and status is STOPPED.
C20_AtMostOneAlive ==
    /\ Cardinality({p \in Pids : Alive(p)}) <= 1
    /\ ((\A r \in Reqs : ~InGate(r)) /\ status = STOPPED) =>
           \A p \in Pids : ~Alive(p)

====
